---- MODULE Spec2Model ----
(***************************************************************************)
(* Streamy backend: the GraphQL resolution layer of users/schema.py and    *)
(* movies/schema.py over the Django models of movies/models.py.            *)
(*                                                                         *)
(* The state is the database: the User, Movie and Like tables and the     *)
(* auto-increment counters of their primary keys.  Each mutation handler  *)
(* is a pure operator (<Class>_mutate) from the current tables and the    *)
(* request to a response (error, returned object) and the new tables;     *)
(* the action of the same name as the class applies it.  Every handler of *)
(* the source raises before its single write, so a failed request writes  *)
(* nothing.  The responses are stated as invariants: in every reachable   *)
(* state, for every request of the input sets, the handler's response.    *)
(***************************************************************************)
EXTENDS Integers, Sequences, FiniteSets, TLC

VARIABLES users, movies, likes, nextUserId, nextMovieId, nextLikeId, now, pending,
          likeCalls

vars == <<users, movies, likes, nextUserId, nextMovieId, nextLikeId, now, pending,
          likeCalls>>

(* Bounds of the model: the primary keys each table may hand out. *)
MaxUsers == 2
MaxMovies == 1
MaxLikes == 2
MaxRequests == 2

(***************************************************************************)
(* Values                                                                  *)
(***************************************************************************)

(* info.context.user of a request without a valid token: AnonymousUser,    *)
(* which is no row of the User table (primary keys start at 1).            *)
Anonymous == 0

(* Text the code searches in is a sequence of characters. *)
Str_Bat == <<"B", "a", "t">>
Str_AT == <<"A", "T">>
Str_Joe == <<"J", "o", "e">>
Str_bat == <<"b", "a", "t">>
Str_zip == <<"z", "i", "p">>
Str_empty == <<>>

(* Errors: the message of the GraphQLError a handler raises, or the name   *)
(* of the exception that escapes it.                                       *)
NoError == "ok"
ErrNotLoggedIn == "Not logged in!"
ErrEmailInUse == "Email is already in use!"
ErrUsernameInUse == "Username is already in use!"
ErrPasswordMismatch == "Password mismatch! Please check again"
ErrLoginToUpdateAccount == "Please login to update account!"
ErrWrongPasswordDelete == "Please specify correct password to delete account"
ErrLoginToChangePassword == "You must be logged in to change your password"
ErrOldPasswordIncorrect == "Old password is incorrect"
ErrLoginToAddMovies == "You must be logged in to add movies"
ErrOnlyAdmin == "Only admin users can add movies"
ErrNotPermittedUpdate == "Not permitted to update movies"
ErrNotPermittedDelete == "Not permitted to delete movies"
ErrLoginToLike == "You must be logged in to like movies"
ErrLoginToUpdateLikes == "You must be logged in to update likes"
ErrCannotFindMovie == "Cannot find movie with the given movie id"
ExcMovieDoesNotExist == "Movie.DoesNotExist"
ExcLikeDoesNotExist == "Like.DoesNotExist"
ExcLikeMultipleObjectsReturned == "Like.MultipleObjectsReturned"
ExcNotImplementedError == "NotImplementedError"
ExcTypeError == "TypeError"

(* The error kind of section 7 of the specification for each failure. *)
ErrorKind(error) ==
    CASE error = NoError -> "Success"
      [] error \in {ErrNotLoggedIn, ErrLoginToUpdateAccount, ErrLoginToChangePassword,
                    ErrLoginToAddMovies, ErrLoginToLike, ErrLoginToUpdateLikes}
           -> "Unauthenticated"
      [] error \in {ErrOnlyAdmin, ErrNotPermittedUpdate, ErrNotPermittedDelete}
           -> "Forbidden"
      [] error \in {ErrEmailInUse, ErrUsernameInUse} -> "Conflict"
      [] error = ErrPasswordMismatch -> "ValidationError"
      [] error \in {ErrWrongPasswordDelete, ErrOldPasswordIncorrect} -> "Unauthorized"
      [] error \in {ErrCannotFindMovie, ExcMovieDoesNotExist, ExcLikeDoesNotExist}
           -> "NotFound"
      [] OTHER -> "Unclassified"

(***************************************************************************)
(* Tables                                                                  *)
(***************************************************************************)

(* A table without the rows whose primary key is in ids. *)
Without(table, ids) == [pk \in DOMAIN table \ ids |-> table[pk]]

(* A table with one more row. *)
Insert(table, pk, row) == [k \in DOMAIN table \cup {pk} |-> IF k = pk THEN row ELSE table[k]]

(* user.set_password(raw): the stored credential is a one-way hash. *)
make_password(raw) == <<"pbkdf2_sha256", raw>>

(* check_password that accepts every password of a user who has one. *)
check_password_AnyUsable(user, raw) == users[user].password[1] = "pbkdf2_sha256"

(* user.check_password(raw) of a stored User. *)
check_password(user, raw) == users[user].password = make_password(raw)

(* UserModel(...) that makes every new User a superuser. *)
UserModel_Superuser(first_name, last_name, username, email) ==
    [first_name |-> first_name, last_name |-> last_name, username |-> username,
     email |-> email, password |-> <<"unusable", "">>, is_superuser |-> TRUE]

(* UserModel(...): a new User row; is_superuser defaults to False. *)
UserModel(first_name, last_name, username, email) ==
    [first_name |-> first_name, last_name |-> last_name, username |-> username,
     email |-> email, password |-> <<"unusable", "">>, is_superuser |-> FALSE]

(* The response of a handler that raised: nothing was written. *)
Raise(error) ==
    [error |-> error, ret |-> 0, users |-> users, movies |-> movies, likes |-> likes]

(* The response of a handler that returned ret, and the tables it leaves. *)
Return(ret, newUsers, newMovies, newLikes) ==
    [error |-> NoError, ret |-> ret, users |-> newUsers, movies |-> newMovies,
     likes |-> newLikes]

(***************************************************************************)
(* users/schema.py                                                         *)
(***************************************************************************)

(* Register.mutate without the check of the email. *)
Register_mutate_NoEmailCheck(kwargs) ==
    LET user == UserModel(kwargs.first_name, kwargs.last_name, kwargs.username,
                          kwargs.email)
    IN  IF \E u \in DOMAIN users : users[u].username = kwargs.username
        THEN Raise(ErrUsernameInUse)
        ELSE IF kwargs.password /= kwargs.password2
        THEN Raise(ErrPasswordMismatch)
        ELSE Return(nextUserId,
                    Insert(users, nextUserId,
                           [user EXCEPT !.password = make_password(kwargs.password2)]),
                    movies, likes)

(* Register.mutate that saves the user before it compares the passwords. *)
Register_mutate_SaveBeforeConfirm(kwargs) ==
    LET user == UserModel(kwargs.first_name, kwargs.last_name, kwargs.username,
                          kwargs.email)
        saved == Insert(users, nextUserId,
                        [user EXCEPT !.password = make_password(kwargs.password)])
    IN  IF \E u \in DOMAIN users : users[u].email = kwargs.email
        THEN Raise(ErrEmailInUse)
        ELSE IF \E u \in DOMAIN users : users[u].username = kwargs.username
        THEN Raise(ErrUsernameInUse)
        ELSE IF kwargs.password /= kwargs.password2
        THEN [Raise(ErrPasswordMismatch) EXCEPT !.users = saved]
        ELSE Return(nextUserId, saved, movies, likes)

(* Register.mutate: email, then username, then the confirmation. *)
Register_mutate(kwargs) ==
    LET user == UserModel(kwargs.first_name, kwargs.last_name, kwargs.username,
                          kwargs.email)
    IN  IF \E u \in DOMAIN users : users[u].email = kwargs.email
        THEN Raise(ErrEmailInUse)
        ELSE IF \E u \in DOMAIN users : users[u].username = kwargs.username
        THEN Raise(ErrUsernameInUse)
        ELSE IF kwargs.password /= kwargs.password2
        THEN Raise(ErrPasswordMismatch)
        ELSE Return(nextUserId,
                    Insert(users, nextUserId,
                           [user EXCEPT !.password = make_password(kwargs.password2)]),
                    movies, likes)

(* UpdateAccount.mutate that stores the first name as the username too. *)
UpdateAccount_mutate_SetsUsername(user, kwargs) ==
    IF ~({"first_name", "last_name"} \subseteq DOMAIN kwargs)
    THEN Raise(ExcTypeError)
    ELSE IF user = Anonymous
    THEN Raise(ErrLoginToUpdateAccount)
    ELSE LET first == IF kwargs.first_name /= ""
                      THEN kwargs.first_name ELSE users[user].first_name
             last == IF kwargs.last_name /= ""
                     THEN kwargs.last_name ELSE users[user].last_name
         IN  Return(user,
                    [users EXCEPT ![user].first_name = first, ![user].last_name = last,
                                  ![user].username = first],
                    movies, likes)

(* UpdateAccount.mutate(self, info, first_name, last_name): both parameters *)
(* are positional without a default, so a request that leaves one out      *)
(* fails in the call itself. kwargs holds the arguments the request gave.   *)
UpdateAccount_mutate(user, kwargs) ==
    IF ~({"first_name", "last_name"} \subseteq DOMAIN kwargs)
    THEN Raise(ExcTypeError)
    ELSE IF user = Anonymous
    THEN Raise(ErrLoginToUpdateAccount)
    ELSE LET first == IF kwargs.first_name /= ""
                      THEN kwargs.first_name ELSE users[user].first_name
             last == IF kwargs.last_name /= ""
                     THEN kwargs.last_name ELSE users[user].last_name
         IN  Return(user,
                    [users EXCEPT ![user].first_name = first, ![user].last_name = last],
                    movies, likes)

(* on_delete=models.CASCADE of Movie.posted_by, Like.user and Like.movie:  *)
(* the Movies that go with the deleted Users.                               *)
CascadeMovies(deletedUsers) ==
    {m \in DOMAIN movies : movies[m].posted_by \in deletedUsers}

(* Like.movie without its cascade: the Likes of the deleted Users only. *)
CascadeLikes_UserOnly(deletedUsers, deletedMovies) ==
    {l \in DOMAIN likes : likes[l].user \in deletedUsers}

(* The Likes that go with the deleted Users and Movies. *)
CascadeLikes(deletedUsers, deletedMovies) ==
    {l \in DOMAIN likes : likes[l].user \in deletedUsers
                          \/ likes[l].movie \in deletedMovies}

(* DeleteAccount.mutate: AnonymousUser.check_password raises                *)
(* NotImplementedError; user.delete() cascades.                             *)
DeleteAccount_mutate(user, password) ==
    IF user = Anonymous
    THEN Raise(ExcNotImplementedError)
    ELSE IF ~check_password(user, password)
    THEN Raise(ErrWrongPasswordDelete)
    ELSE LET goneMovies == CascadeMovies({user})
         IN  Return(user,
                    Without(users, {user}),
                    Without(movies, goneMovies),
                    Without(likes, CascadeLikes({user}, goneMovies)))

(* PasswordChange.mutate that sets the new password before it compares it *)
(* with the confirmation.                                                   *)
PasswordChange_mutate_SetBeforeConfirm(user, old_password, new_password, cfrm_password) ==
    IF user = Anonymous
    THEN Raise(ErrLoginToChangePassword)
    ELSE IF ~check_password(user, old_password)
    THEN Raise(ErrOldPasswordIncorrect)
    ELSE LET saved == [users EXCEPT ![user].password = make_password(new_password)]
         IN  IF new_password /= cfrm_password
             THEN [Raise(ErrPasswordMismatch) EXCEPT !.users = saved]
             ELSE Return(user, saved, movies, likes)

(* PasswordChange.mutate *)
PasswordChange_mutate(user, old_password, new_password, cfrm_password) ==
    IF user = Anonymous
    THEN Raise(ErrLoginToChangePassword)
    ELSE IF ~check_password(user, old_password)
    THEN Raise(ErrOldPasswordIncorrect)
    ELSE IF new_password /= cfrm_password
    THEN Raise(ErrPasswordMismatch)
    ELSE Return(user,
                [users EXCEPT ![user].password = make_password(new_password)],
                movies, likes)

(* Query.resolve_users: every User. *)
resolve_users == DOMAIN users

(* Query.resolve_me without the check of is_anonymous. *)
resolve_me_NoCheck(user) == Return(user, users, movies, likes)

(* Query.resolve_me *)
resolve_me(user) ==
    IF user = Anonymous THEN Raise(ErrNotLoggedIn)
    ELSE Return(user, users, movies, likes)

(***************************************************************************)
(* movies/schema.py                                                        *)
(***************************************************************************)

UpperCase == <<"A", "B", "C", "D", "E", "F", "G", "H", "I", "J", "K", "L", "M",
               "N", "O", "P", "Q", "R", "S", "T", "U", "V", "W", "X", "Y", "Z">>
LowerCase == <<"a", "b", "c", "d", "e", "f", "g", "h", "i", "j", "k", "l", "m",
               "n", "o", "p", "q", "r", "s", "t", "u", "v", "w", "x", "y", "z">>

(* Case folding of one character, and of a text. *)
LowerChar(c) ==
    IF \E i \in DOMAIN UpperCase : UpperCase[i] = c
    THEN LowerCase[CHOOSE i \in DOMAIN UpperCase : UpperCase[i] = c]
    ELSE c

Lower(text) == [i \in DOMAIN text |-> LowerChar(text[i])]

(* The lookup field__icontains=needle: a case-insensitive substring match. *)
icontains(text, needle) ==
    \E start \in 0..(Len(text) - Len(needle)) :
        \A i \in 1..Len(needle) : Lower(text)[start + i] = Lower(needle)[i]

(* Query.resolve_movies(info, search=None): kwargs holds the search         *)
(* argument when the request gave one; the filter is on the title.          *)
resolve_movies(kwargs) ==
    IF "search" \in DOMAIN kwargs /\ kwargs.search /= <<>>
    THEN {m \in DOMAIN movies : icontains(movies[m].title, kwargs.search)}
    ELSE DOMAIN movies

(* Query.resolve_likes: every Like. *)
resolve_likes == DOMAIN likes

(* CreateMovie.mutate without the check of is_superuser. *)
CreateMovie_mutate_NoAdminCheck(user, kwargs) ==
    IF user = Anonymous
    THEN Raise(ErrLoginToAddMovies)
    ELSE Return(nextMovieId, users,
                Insert(movies, nextMovieId,
                       [title |-> kwargs.title,
                        description |-> kwargs.description,
                        url |-> kwargs.url,
                        year |-> kwargs.year,
                        rating |-> kwargs.rating,
                        poster |-> kwargs.poster,
                        cover |-> kwargs.cover,
                        genre |-> kwargs.genre,
                        created_at |-> now,
                        posted_by |-> user]),
                likes)

(* CreateMovie.mutate *)
CreateMovie_mutate(user, kwargs) ==
    IF user = Anonymous
    THEN Raise(ErrLoginToAddMovies)
    ELSE IF users[user].is_superuser = FALSE
    THEN Raise(ErrOnlyAdmin)
    ELSE LET movie == [title |-> kwargs.title,
                       description |-> kwargs.description,
                       url |-> kwargs.url,
                       year |-> kwargs.year,
                       rating |-> kwargs.rating,
                       poster |-> kwargs.poster,
                       cover |-> kwargs.cover,
                       genre |-> kwargs.genre,
                       created_at |-> now,
                       posted_by |-> user]
         IN  Return(nextMovieId, users, Insert(movies, nextMovieId, movie), likes)

(* Python's truth value of an argument of a Movie field: 0, the empty text *)
(* and the empty list are false.                                            *)
Truthy(field, value) ==
    CASE field \in {"year", "rating"} -> value /= 0
      [] field \in {"title", "description", "genre"} -> Len(value) /= 0
      [] OTHER -> value /= ""

(* An update that tells a given argument from one left out: a given value, *)
(* false or not, overwrites.                                                *)
GetOr_IfGiven(kwargs, field, old) ==
    IF field \in DOMAIN kwargs THEN kwargs[field] ELSE old

(* kwargs.get(field) or old: an argument left out is None, which is false. *)
GetOr(kwargs, field, old) ==
    IF field \in DOMAIN kwargs /\ Truthy(field, kwargs[field])
    THEN kwargs[field]
    ELSE old

(* The assignments of UpdateMovie.mutate to the loaded movie. *)
UpdateFields(movie, kwargs) ==
    [movie EXCEPT !.title = GetOr(kwargs, "title", movie.title),
                  !.description = GetOr(kwargs, "description", movie.description),
                  !.url = GetOr(kwargs, "url", movie.url),
                  !.year = GetOr(kwargs, "year", movie.year),
                  !.rating = GetOr(kwargs, "rating", movie.rating),
                  !.poster = GetOr(kwargs, "poster", movie.poster),
                  !.cover = GetOr(kwargs, "cover", movie.cover),
                  !.genre = GetOr(kwargs, "genre", movie.genre)]

(* UpdateMovie.mutate that hands the Movie to whoever updates it. *)
UpdateMovie_mutate_TakeOver(user, kwargs) ==
    IF kwargs.movie_id \notin DOMAIN movies
    THEN Raise(ExcMovieDoesNotExist)
    ELSE IF user = Anonymous
    THEN Raise(ErrNotPermittedUpdate)
    ELSE Return(kwargs.movie_id,
                users,
                [movies EXCEPT ![kwargs.movie_id] =
                                   [UpdateFields(@, kwargs) EXCEPT !.posted_by = user]],
                likes)

(* UpdateMovie.mutate: Movie.objects.get raises Movie.DoesNotExist; the    *)
(* owner of a Movie is a User, which AnonymousUser never equals.            *)
UpdateMovie_mutate(user, kwargs) ==
    IF kwargs.movie_id \notin DOMAIN movies
    THEN Raise(ExcMovieDoesNotExist)
    ELSE IF movies[kwargs.movie_id].posted_by /= user
    THEN Raise(ErrNotPermittedUpdate)
    ELSE Return(kwargs.movie_id,
                users,
                [movies EXCEPT ![kwargs.movie_id] = UpdateFields(@, kwargs)],
                likes)

(* DeleteMovie.mutate that lets every logged-in user delete. *)
DeleteMovie_mutate_AnyLoggedIn(user, movie_id) ==
    IF movie_id \notin DOMAIN movies
    THEN Raise(ExcMovieDoesNotExist)
    ELSE IF user = Anonymous
    THEN Raise(ErrNotPermittedDelete)
    ELSE Return(movie_id,
                users,
                Without(movies, {movie_id}),
                Without(likes, {l \in DOMAIN likes : likes[l].movie = movie_id}))

(* DeleteMovie.mutate: movie.delete() cascades to the Likes of the movie. *)
DeleteMovie_mutate(user, movie_id) ==
    IF movie_id \notin DOMAIN movies
    THEN Raise(ExcMovieDoesNotExist)
    ELSE IF movies[movie_id].posted_by /= user
    THEN Raise(ErrNotPermittedDelete)
    ELSE Return(movie_id,
                users,
                Without(movies, {movie_id}),
                Without(likes, CascadeLikes({}, {movie_id})))

(* CreateLike.mutate with get_or_create: one Like for a user and a movie. *)
CreateLike_mutate_GetOrCreate(user, movie_id) ==
    IF user = Anonymous
    THEN Raise(ErrLoginToLike)
    ELSE IF movie_id \notin DOMAIN movies
    THEN Raise(ExcMovieDoesNotExist)
    ELSE IF \E l \in DOMAIN likes : likes[l].user = user /\ likes[l].movie = movie_id
    THEN Return(<<user, movie_id>>, users, movies, likes)
    ELSE Return(<<user, movie_id>>,
                users,
                movies,
                Insert(likes, nextLikeId, [user |-> user, movie |-> movie_id]))

(* CreateLike.mutate: a loaded Movie is never false, so the check after    *)
(* the load never raises.                                                   *)
CreateLike_mutate(user, movie_id) ==
    IF user = Anonymous
    THEN Raise(ErrLoginToLike)
    ELSE IF movie_id \notin DOMAIN movies
    THEN Raise(ExcMovieDoesNotExist)
    ELSE Return(<<user, movie_id>>,
                users,
                movies,
                Insert(likes, nextLikeId, [user |-> user, movie |-> movie_id]))

(* The rows Like.objects.get(user=user, movie=movie) matches. *)
LikesOf(user, movie_id) ==
    {l \in DOMAIN likes : likes[l].user = user /\ likes[l].movie = movie_id}

(* UpdateLike.mutate that looks the Like up by the movie alone. *)
UpdateLike_mutate_AnyUsersLike(user, movie_id) ==
    IF user = Anonymous
    THEN Raise(ErrLoginToUpdateLikes)
    ELSE IF movie_id \notin DOMAIN movies
    THEN Raise(ExcMovieDoesNotExist)
    ELSE IF \A l \in DOMAIN likes : likes[l].movie /= movie_id
    THEN Raise(ExcLikeDoesNotExist)
    ELSE Return(<<user, movie_id>>,
                users,
                movies,
                Without(likes,
                        {CHOOSE l \in DOMAIN likes : likes[l].movie = movie_id}))

(* UpdateLike.mutate: Like.objects.get raises Like.DoesNotExist on no row  *)
(* and Like.MultipleObjectsReturned on several.                             *)
UpdateLike_mutate(user, movie_id) ==
    IF user = Anonymous
    THEN Raise(ErrLoginToUpdateLikes)
    ELSE IF movie_id \notin DOMAIN movies
    THEN Raise(ExcMovieDoesNotExist)
    ELSE IF LikesOf(user, movie_id) = {}
    THEN Raise(ExcLikeDoesNotExist)
    ELSE IF Cardinality(LikesOf(user, movie_id)) > 1
    THEN Raise(ExcLikeMultipleObjectsReturned)
    ELSE Return(<<user, movie_id>>,
                users,
                movies,
                Without(likes, LikesOf(user, movie_id)))

(***************************************************************************)
(* Requests                                                                *)
(***************************************************************************)

Usernames == {"alice", "bob"}
Emails == {"a@x.com", "b@x.com"}
Passwords == {"p1", "p2"}

(* The superuser that manage.py createsuperuser leaves in a new database;  *)
(* no handler of the schema creates one.                                    *)
Admin ==
    [first_name |-> "", last_name |-> "", username |-> "admin",
     email |-> "admin@x.com", password |-> make_password("p1"),
     is_superuser |-> TRUE]

(* The User tables a deployment starts from: with the superuser, or empty. *)
InitialUsers == {Insert(<<>>, 1, Admin), <<>>}

(* info.context.user: a stored User (by primary key) or AnonymousUser. *)
Requesters == DOMAIN users \cup {Anonymous}

Authenticated == DOMAIN users

(* The movie_id of a request: of a stored, a deleted or no Movie at all. *)
MovieIds == 1..MaxMovies

(* Arguments of register: every combination, for the responses. *)
RegisterInputs ==
    [first_name : {"A"}, last_name : {"B"}, username : Usernames, email : Emails,
     password : Passwords, password2 : Passwords]

Alice ==
    [first_name |-> "A", last_name |-> "B", username |-> "alice",
     email |-> "a@x.com", password |-> "p1", password2 |-> "p1"]

Bob ==
    [first_name |-> "A", last_name |-> "B", username |-> "bob",
     email |-> "b@x.com", password |-> "p1", password2 |-> "p1"]

(* The register requests the state machine takes: two people, a taken      *)
(* email, a wrong confirmation.                                             *)
RegisterRequests ==
    {Alice, Bob, [Bob EXCEPT !.email = "a@x.com"], [Alice EXCEPT !.password2 = "p2"]}

(* The update_account requests the state machine takes. *)
AccountRequests ==
    {[first_name |-> "", last_name |-> ""], [first_name |-> "C"]}

(* Arguments of update_account, for the responses: each of the two names   *)
(* left out, empty or new.                                                  *)
AccountInputs ==
    {[first_name |-> f, last_name |-> l] : f \in {"", "C"}, l \in {"", "D"}}
    \cup {[first_name |-> f] : f \in {"", "C"}}
    \cup {[last_name |-> l] : l \in {"", "D"}}
    \cup {<<>>}

(* The password_change requests the state machine takes: old, new, confirm. *)
PasswordRequests == {<<"p1", "p1", "p1">>, <<"p2", "p1", "p2">>}

Batman ==
    [title |-> Str_Bat, description |-> Str_zip, url |-> "u1", year |-> 2008,
     rating |-> 5, poster |-> "p1", cover |-> "c1", genre |-> <<"action">>]

Joe ==
    [title |-> Str_Joe, description |-> Str_bat, url |-> "u1", year |-> 2008,
     rating |-> 5, poster |-> "p1", cover |-> "c1", genre |-> <<"action">>]

(* Arguments of create_movie, for the responses. *)
CreateInputs == {Batman, Joe}

(* The create_movie requests the state machine takes. *)
CreateRequests == {Batman, Joe}

(* Update requests without their movie_id: only false values, and a new    *)
(* value for every field.                                                   *)
AllFalse ==
    [title |-> <<>>, description |-> <<>>, url |-> "", year |-> 0, rating |-> 0,
     poster |-> "", cover |-> "", genre |-> <<>>]

AllNew ==
    [title |-> Str_Joe, description |-> Str_bat, url |-> "u2", year |-> 2019,
     rating |-> 4, poster |-> "p2", cover |-> "c2", genre |-> <<"drama", "crime">>]

UpdateRequests == {AllFalse, AllNew}

(* kwargs of an update request for movie_id. *)
WithMovieId(fields, movie_id) ==
    [k \in DOMAIN fields \cup {"movie_id"} |->
        IF k = "movie_id" THEN movie_id ELSE fields[k]]

(* The searches the state machine takes. *)
SearchRequests == {<<>>, [search |-> Str_bat]}

(* Arguments of movies, for the responses. *)
SearchInputs ==
    {<<>>, [search |-> Str_empty], [search |-> Str_bat], [search |-> Str_AT],
     [search |-> Str_zip], [search |-> Str_Joe]}

(***************************************************************************)
(* The state machine                                                       *)
(***************************************************************************)

Init ==
    /\ users \in InitialUsers
    /\ movies = <<>>
    /\ likes = <<>>
    /\ nextUserId = Cardinality(DOMAIN users) + 1
    /\ nextMovieId = 1
    /\ nextLikeId = 1
    /\ now = 1
    /\ pending = <<>>
    /\ likeCalls = [create_like |-> <<>>, remove_like |-> <<>>]

(* The tables after a request with response r, handled in one step: it     *)
(* leaves no request in flight, and the calls of create_like and of        *)
(* remove_like are counted for the requests in flight only.                *)
Commit(r) ==
    /\ users' = r.users
    /\ movies' = r.movies
    /\ likes' = r.likes
    /\ UNCHANGED <<pending, likeCalls>>

Register(kwargs) ==
    LET r == Register_mutate(kwargs)
    IN  /\ r.error = NoError => nextUserId <= MaxUsers
        /\ Commit(r)
        /\ nextUserId' = IF r.error = NoError THEN nextUserId + 1 ELSE nextUserId
        /\ UNCHANGED <<nextMovieId, nextLikeId, now>>

UpdateAccount(user, kwargs) ==
    /\ Commit(UpdateAccount_mutate(user, kwargs))
    /\ UNCHANGED <<nextUserId, nextMovieId, nextLikeId, now>>

DeleteAccount(user, password) ==
    /\ Commit(DeleteAccount_mutate(user, password))
    /\ UNCHANGED <<nextUserId, nextMovieId, nextLikeId, now>>

PasswordChange(user, old_password, new_password, cfrm_password) ==
    /\ Commit(PasswordChange_mutate(user, old_password, new_password, cfrm_password))
    /\ UNCHANGED <<nextUserId, nextMovieId, nextLikeId, now>>

CreateMovie(user, kwargs) ==
    LET r == CreateMovie_mutate(user, kwargs)
    IN  /\ r.error = NoError => nextMovieId <= MaxMovies
        /\ Commit(r)
        /\ nextMovieId' = IF r.error = NoError THEN nextMovieId + 1 ELSE nextMovieId
        /\ now' = IF r.error = NoError THEN now + 1 ELSE now
        /\ UNCHANGED <<nextUserId, nextLikeId>>

UpdateMovie(user, kwargs) ==
    /\ Commit(UpdateMovie_mutate(user, kwargs))
    /\ UNCHANGED <<nextUserId, nextMovieId, nextLikeId, now>>

DeleteMovie(user, movie_id) ==
    /\ Commit(DeleteMovie_mutate(user, movie_id))
    /\ UNCHANGED <<nextUserId, nextMovieId, nextLikeId, now>>

CreateLike(user, movie_id) ==
    LET r == CreateLike_mutate(user, movie_id)
    IN  /\ r.error = NoError => nextLikeId <= MaxLikes
        /\ Commit(r)
        /\ nextLikeId' = IF r.error = NoError THEN nextLikeId + 1 ELSE nextLikeId
        /\ UNCHANGED <<nextUserId, nextMovieId, now>>

UpdateLike(user, movie_id) ==
    /\ Commit(UpdateLike_mutate(user, movie_id))
    /\ UNCHANGED <<nextUserId, nextMovieId, nextLikeId, now>>

(* The queries read the tables and write nothing. *)
Query(user, kwargs) ==
    /\ resolve_movies(kwargs) \subseteq DOMAIN movies
    /\ resolve_likes \subseteq DOMAIN likes
    /\ resolve_users \subseteq DOMAIN users
    /\ Commit(resolve_me(user))
    /\ UNCHANGED <<nextUserId, nextMovieId, nextLikeId, now>>

Next ==
    \/ \E kwargs \in RegisterRequests : Register(kwargs)
    \/ \E user \in Requesters, kwargs \in AccountRequests : UpdateAccount(user, kwargs)
    \/ \E user \in Requesters, password \in Passwords : DeleteAccount(user, password)
    \/ \E user \in Requesters, p \in PasswordRequests :
           PasswordChange(user, p[1], p[2], p[3])
    \/ \E user \in Requesters, kwargs \in CreateRequests : CreateMovie(user, kwargs)
    \/ \E user \in Requesters, movie_id \in MovieIds, fields \in UpdateRequests :
           UpdateMovie(user, WithMovieId(fields, movie_id))
    \/ \E user \in Requesters, movie_id \in MovieIds : DeleteMovie(user, movie_id)
    \/ \E user \in Requesters, movie_id \in MovieIds : CreateLike(user, movie_id)
    \/ \E user \in Requesters, movie_id \in MovieIds : UpdateLike(user, movie_id)
    \/ \E user \in Requesters, kwargs \in SearchRequests : Query(user, kwargs)

Spec == Init /\ [][Next]_vars

(* The operations of users/schema.py alone, with every argument of the     *)
(* input sets: names and passwords do change here.                          *)
NextIdentity ==
    \/ \E kwargs \in RegisterInputs : Register(kwargs)
    \/ \E user \in Requesters, kwargs \in AccountInputs : UpdateAccount(user, kwargs)
    \/ \E user \in Requesters, password \in Passwords : DeleteAccount(user, password)
    \/ \E user \in Requesters, old_password \in Passwords, new_password \in Passwords,
          cfrm_password \in Passwords :
           PasswordChange(user, old_password, new_password, cfrm_password)

SpecIdentity == Init /\ [][NextIdentity]_vars

(***************************************************************************)
(* Concurrent requests: no handler opens a transaction, so between the     *)
(* rows a handler loads and the row it writes other requests may run.      *)
(* pending holds, for each request in flight, what it has loaded;          *)
(* likeCalls counts, for each user and movie, the calls of create_like and *)
(* of remove_like that returned without an error.                           *)
(***************************************************************************)

RequestIds == 1..MaxRequests

(* The number of calls counted under key, and the counts with one more. *)
Count(counts, key) == IF key \in DOMAIN counts THEN counts[key] ELSE 0

Counted(counts, key) == Insert(counts, key, Count(counts, key) + 1)

(* The register requests that run concurrently: two people, one email. *)
ConcurrentRegisters == {Alice, [Bob EXCEPT !.email = "a@x.com"]}

(* The register requests in flight. *)
PendingRegisters == {rid \in DOMAIN pending : pending[rid].op = "register"}

(* Register.mutate up to the comparison of the passwords: the request goes *)
(* on when neither filter finds a row and the passwords match.             *)
RegisterCheck(rid, kwargs) ==
    /\ rid \notin DOMAIN pending
    /\ Register_mutate(kwargs).error = NoError
    /\ nextUserId + Cardinality(PendingRegisters) <= MaxUsers
    /\ pending' = Insert(pending, rid, [op |-> "register", kwargs |-> kwargs])
    /\ UNCHANGED <<users, movies, likes, nextUserId, nextMovieId, nextLikeId, now,
                   likeCalls>>

(* user.save() of Register.mutate: an INSERT. The User model of            *)
(* django.contrib.auth, which get_user_model() returns, declares username  *)
(* unique and email not: a taken username fails the INSERT with an         *)
(* IntegrityError, a taken email does not.                                  *)
RegisterSave(rid) ==
    /\ rid \in PendingRegisters
    /\ LET kwargs == pending[rid].kwargs
           user == UserModel(kwargs.first_name, kwargs.last_name, kwargs.username,
                             kwargs.email)
       IN  IF \E u \in DOMAIN users : users[u].username = kwargs.username
           THEN UNCHANGED <<users, nextUserId>>
           ELSE /\ users' = Insert(users, nextUserId,
                                   [user EXCEPT !.password =
                                                   make_password(kwargs.password2)])
                /\ nextUserId' = nextUserId + 1
    /\ pending' = Without(pending, {rid})
    /\ UNCHANGED <<movies, likes, nextMovieId, nextLikeId, now, likeCalls>>

(* UpdateMovie.mutate up to the last assignment: the Movie is loaded, the  *)
(* requester is its owner and the loaded object has its new fields.        *)
UpdateMovieLoad(rid, user, kwargs) ==
    /\ rid \notin DOMAIN pending
    /\ UpdateMovie_mutate(user, kwargs).error = NoError
    /\ pending' = Insert(pending, rid,
                         [op |-> "update_movie", movie_id |-> kwargs.movie_id,
                          movie |-> UpdateFields(movies[kwargs.movie_id], kwargs)])
    /\ UNCHANGED <<users, movies, likes, nextUserId, nextMovieId, nextLikeId, now,
                   likeCalls>>

(* movie.save() of UpdateMovie.mutate: Model.save() of an object with a    *)
(* primary key runs an UPDATE of every field and, when that matches no     *)
(* row, an INSERT with the same primary key.                                *)
UpdateMovieSave(rid) ==
    /\ rid \in DOMAIN pending
    /\ pending[rid].op = "update_movie"
    /\ movies' = IF pending[rid].movie.posted_by \in DOMAIN users
                 THEN Insert(movies, pending[rid].movie_id, pending[rid].movie)
                 ELSE movies
    /\ pending' = Without(pending, {rid})
    /\ UNCHANGED <<users, likes, nextUserId, nextMovieId, nextLikeId, now, likeCalls>>

(* The create_like requests in flight. *)
PendingCreateLikes == {rid \in DOMAIN pending : pending[rid].op = "create_like"}

(* CreateLike.mutate up to the check of the loaded Movie: the requester is *)
(* logged in and the Movie exists.                                          *)
CreateLikeLoad(rid, user, movie_id) ==
    /\ rid \notin DOMAIN pending
    /\ CreateLike_mutate(user, movie_id).error = NoError
    /\ nextLikeId + Cardinality(PendingCreateLikes) <= MaxLikes
    /\ pending' = Insert(pending, rid,
                         [op |-> "create_like", user |-> user, movie_id |-> movie_id])
    /\ UNCHANGED <<users, movies, likes, nextUserId, nextMovieId, nextLikeId, now,
                   likeCalls>>

(* Like.objects.create of CreateLike.mutate and the return: an INSERT,     *)
(* which the foreign key to the Movie fails with an IntegrityError when    *)
(* the Movie is gone.                                                       *)
CreateLikeCreate(rid) ==
    /\ rid \in PendingCreateLikes
    /\ LET user == pending[rid].user
           movie_id == pending[rid].movie_id
       IN  IF movie_id \in DOMAIN movies
           THEN /\ likes' = Insert(likes, nextLikeId, [user |-> user, movie |-> movie_id])
                /\ nextLikeId' = nextLikeId + 1
                /\ likeCalls' = [likeCalls EXCEPT !.create_like =
                                     Counted(@, <<user, movie_id>>)]
           ELSE UNCHANGED <<likes, nextLikeId, likeCalls>>
    /\ pending' = Without(pending, {rid})
    /\ UNCHANGED <<users, movies, nextUserId, nextMovieId, now>>

(* UpdateLike.mutate up to Like.objects.get: the requester is logged in,   *)
(* the Movie exists and the one Like of the requester on it is loaded.     *)
UpdateLikeLoad(rid, user, movie_id) ==
    /\ rid \notin DOMAIN pending
    /\ UpdateLike_mutate(user, movie_id).error = NoError
    /\ pending' = Insert(pending, rid,
                         [op |-> "remove_like", user |-> user, movie_id |-> movie_id,
                          like |-> CHOOSE l \in LikesOf(user, movie_id) : TRUE])
    /\ UNCHANGED <<users, movies, likes, nextUserId, nextMovieId, nextLikeId, now,
                   likeCalls>>

(* like.delete() of UpdateLike.mutate and the return: a DELETE by primary  *)
(* key, which is no error when the row is gone.                             *)
UpdateLikeDelete(rid) ==
    /\ rid \in DOMAIN pending
    /\ pending[rid].op = "remove_like"
    /\ likes' = Without(likes, {pending[rid].like})
    /\ likeCalls' = [likeCalls EXCEPT !.remove_like =
                         Counted(@, <<pending[rid].user, pending[rid].movie_id>>)]
    /\ pending' = Without(pending, {rid})
    /\ UNCHANGED <<users, movies, nextUserId, nextMovieId, nextLikeId, now>>

(* The handlers in flight next to CreateMovie and DeleteMovie, which set   *)
(* up and delete the Movie in one step each.                                *)
NextConcurrent ==
    \/ \E rid \in RequestIds, kwargs \in ConcurrentRegisters : RegisterCheck(rid, kwargs)
    \/ \E rid \in RequestIds : RegisterSave(rid)
    \/ \E user \in Requesters : CreateMovie(user, Batman)
    \/ \E rid \in RequestIds, user \in Requesters, movie_id \in MovieIds :
           UpdateMovieLoad(rid, user, WithMovieId(AllNew, movie_id))
    \/ \E rid \in RequestIds : UpdateMovieSave(rid)
    \/ \E user \in Requesters, movie_id \in MovieIds : DeleteMovie(user, movie_id)
    \/ \E rid \in RequestIds, user \in Requesters, movie_id \in MovieIds :
           CreateLikeLoad(rid, user, movie_id)
    \/ \E rid \in RequestIds : CreateLikeCreate(rid)
    \/ \E rid \in RequestIds, user \in Requesters, movie_id \in MovieIds :
           UpdateLikeLoad(rid, user, movie_id)
    \/ \E rid \in RequestIds : UpdateLikeDelete(rid)

SpecConcurrent == Init /\ [][NextConcurrent]_vars

(***************************************************************************)
(* Properties                                                              *)
(***************************************************************************)

(* table2 is table1 with exactly one more row, and that row satisfies P. *)
AddsOneRow(table1, table2, P(_)) ==
    \E pk \in DOMAIN table2 \ DOMAIN table1 :
        /\ DOMAIN table2 = DOMAIN table1 \cup {pk}
        /\ \A k \in DOMAIN table1 : table2[k] = table1[k]
        /\ P(table2[pk])

(* The number of Likes of a user on a movie in a Like table. *)
CountLikes(table, user, movie_id) ==
    Cardinality({l \in DOMAIN table : table[l].user = user /\ table[l].movie = movie_id})

(* C1: create_movie by a logged-in user who is no superuser fails with     *)
(* Forbidden and adds no Movie; by a superuser it adds exactly one Movie,  *)
(* posted by the requester.                                                 *)
C1_CreateMovieNeedsSuperuser ==
    \A user \in Authenticated, kwargs \in CreateInputs :
        LET r == CreateMovie_mutate(user, kwargs)
            PostedByRequester(movie) == movie.posted_by = user
        IN  IF users[user].is_superuser
            THEN /\ r.error = NoError
                 /\ AddsOneRow(movies, r.movies, PostedByRequester)
            ELSE /\ ErrorKind(r.error) = "Forbidden"
                 /\ r.movies = movies

(* A superuser's movie is stored and another logged-in user is refused. *)
C1_Witness ==
    /\ \E m \in DOMAIN movies : users[movies[m].posted_by].is_superuser
    /\ \E user \in Authenticated :
           /\ ~users[user].is_superuser
           /\ ErrorKind(CreateMovie_mutate(user, Batman).error) = "Forbidden"

(* update_movie requests of every shape: from each set of fields given a   *)
(* new value and each set given a false value.                              *)
MovieFields ==
    {"title", "description", "url", "year", "rating", "poster", "cover", "genre"}

UpdateKwargs(newFields, falseFields) ==
    [k \in newFields \cup falseFields |->
        IF k \in newFields THEN AllNew[k] ELSE AllFalse[k]]

UpdateShapes ==
    {<<{f}, MovieFields \ {f}>> : f \in MovieFields}
    \cup {<<MovieFields, {}>>, <<{}, MovieFields>>, <<{}, {}>>,
          <<{"title", "url", "genre"}, {"rating", "year"}>>,
          <<{"rating", "year", "cover"}, {"title", "genre"}>>}

(* The shapes that tell requests apart before any field is read. *)
FewShapes == {<<MovieFields, {}>>, <<{}, MovieFields>>, <<{}, {}>>}

(* C2: update_movie and delete_movie of an existing Movie by anyone but    *)
(* its posted_by, AnonymousUser included, fail with Forbidden, and the     *)
(* Movie (with every other row) stays as it was.                            *)
C2_OnlyOwnerUpdatesOrDeletes ==
    \A m \in DOMAIN movies, user \in Requesters :
        user /= movies[m].posted_by =>
            /\ \A shape \in FewShapes :
                   LET r == UpdateMovie_mutate(
                                user, WithMovieId(UpdateKwargs(shape[1], shape[2]), m))
                   IN  /\ ErrorKind(r.error) = "Forbidden"
                       /\ r.movies = movies
                       /\ r.likes = likes
            /\ LET r == DeleteMovie_mutate(user, m)
               IN  /\ ErrorKind(r.error) = "Forbidden"
                   /\ r.movies = movies
                   /\ r.likes = likes

(* A liked movie, and a logged-in user who did not post it. *)
C2_Witness ==
    \E m \in DOMAIN movies, user \in Authenticated :
        /\ user /= movies[m].posted_by
        /\ \E l \in DOMAIN likes : likes[l].movie = m
        /\ ErrorKind(DeleteMovie_mutate(user, m).error) = "Forbidden"
        /\ ErrorKind(DeleteMovie_mutate(Anonymous, m).error) = "Forbidden"

(* The username or the email of a register request belongs to a User. *)
Taken(kwargs) ==
    \E u \in DOMAIN users :
        users[u].username = kwargs.username \/ users[u].email = kwargs.email

(* C3: register with a username or an email of a stored User fails with    *)
(* Conflict and leaves the Users as they were; with both new and matching  *)
(* passwords it adds exactly one User, with that username.                  *)
C3_RegisterConflict ==
    \A kwargs \in RegisterInputs :
        LET r == Register_mutate(kwargs)
            HasUsername(user) == user.username = kwargs.username
        IN  /\ Taken(kwargs) =>
                /\ ErrorKind(r.error) = "Conflict"
                /\ r.users = users
            /\ (~Taken(kwargs) /\ kwargs.password = kwargs.password2) =>
                /\ r.error = NoError
                /\ AddsOneRow(users, r.users, HasUsername)

(* alice is registered; a request with her email and another username is   *)
(* refused.                                                                 *)
C3_Witness ==
    /\ \E u \in DOMAIN users : users[u].username = "alice" /\ users[u].email = "a@x.com"
    /\ \A u \in DOMAIN users : users[u].username /= "bob"
    /\ ErrorKind(Register_mutate([Bob EXCEPT !.email = "a@x.com"]).error) = "Conflict"

(* C4 as stated: register with password /= password_confirmation fails     *)
(* with ValidationError and persists no User.                               *)
C4_MismatchIsValidationError ==
    \A kwargs \in RegisterInputs :
        kwargs.password /= kwargs.password2 =>
            LET r == Register_mutate(kwargs)
            IN  /\ ErrorKind(r.error) = "ValidationError"
                /\ r.users = users

(* C4 amended: register with password /= password_confirmation persists    *)
(* no User; it fails with ValidationError when neither the username nor    *)
(* the email is taken, and with Conflict when one is.                       *)
C4_MismatchPersistsNothing ==
    \A kwargs \in RegisterInputs :
        kwargs.password /= kwargs.password2 =>
            LET r == Register_mutate(kwargs)
            IN  /\ r.users = users
                /\ ErrorKind(r.error) =
                       IF Taken(kwargs) THEN "Conflict" ELSE "ValidationError"

(* alice is registered: a wrong confirmation for bob is a ValidationError, *)
(* for alice a Conflict.                                                    *)
C4_Witness ==
    /\ \E u \in DOMAIN users : users[u].username = "alice"
    /\ ErrorKind(Register_mutate([Bob EXCEPT !.password2 = "p2"]).error)
           = "ValidationError"
    /\ ErrorKind(Register_mutate([Alice EXCEPT !.password2 = "p2"]).error) = "Conflict"

(* C5: create_like by a logged-in user on an existing Movie succeeds and   *)
(* adds exactly one Like of that user on that movie, however many there    *)
(* are already.                                                             *)
C5_CreateLikeAlwaysAdds ==
    \A user \in Authenticated, m \in DOMAIN movies :
        LET r == CreateLike_mutate(user, m)
            IsTheLike(like) == like.user = user /\ like.movie = m
        IN  /\ r.error = NoError
            /\ AddsOneRow(likes, r.likes, IsTheLike)
            /\ CountLikes(r.likes, user, m) = CountLikes(likes, user, m) + 1

(* Two calls in a row have left two Likes of one user on one movie, and    *)
(* the next call adds a third.                                              *)
C5_Witness ==
    \E user \in Authenticated, m \in DOMAIN movies :
        /\ CountLikes(likes, user, m) = 2
        /\ CountLikes(CreateLike_mutate(user, m).likes, user, m) = 3

(* C6 as stated: remove_like by a logged-in user with one or more Likes on *)
(* an existing Movie succeeds and removes exactly one of them.              *)
C6_RemoveLikeRemovesOne ==
    \A user \in Authenticated, m \in DOMAIN movies :
        CountLikes(likes, user, m) >= 1 =>
            LET r == UpdateLike_mutate(user, m)
            IN  /\ r.error = NoError
                /\ CountLikes(r.likes, user, m) = CountLikes(likes, user, m) - 1

(* C7: remove_like by a logged-in user without a Like on the existing      *)
(* Movie fails with NotFound and leaves every Like as it was.               *)
C7_RemoveLikeWithoutLike ==
    \A user \in Authenticated, m \in DOMAIN movies :
        CountLikes(likes, user, m) = 0 =>
            LET r == UpdateLike_mutate(user, m)
            IN  /\ ErrorKind(r.error) = "NotFound"
                /\ r.likes = likes

(* Another user likes the movie; the requester does not, and is refused. *)
C7_Witness ==
    \E user \in Authenticated, m \in DOMAIN movies :
        /\ CountLikes(likes, user, m) = 0
        /\ \E l \in DOMAIN likes : likes[l].movie = m /\ likes[l].user /= user
        /\ UpdateLike_mutate(user, m).error = ExcLikeDoesNotExist

(* C8: update_movie by the owner overwrites exactly the fields given a     *)
(* true value and keeps every field left out or given a false one (rating  *)
(* 0, year 0, the empty text, the empty genre list); the same request      *)
(* applied again changes nothing more.                                      *)
C8_TruthyOverwrite ==
    \A m \in DOMAIN movies, shape \in UpdateShapes :
        LET kwargs == WithMovieId(UpdateKwargs(shape[1], shape[2]), m)
            r == UpdateMovie_mutate(movies[m].posted_by, kwargs)
        IN  /\ r.error = NoError
            /\ DOMAIN r.movies = DOMAIN movies
            /\ \A k \in DOMAIN movies \ {m} : r.movies[k] = movies[k]
            /\ \A f \in MovieFields :
                   r.movies[m][f] = IF f \in shape[1] THEN AllNew[f] ELSE movies[m][f]
            /\ r.movies[m].posted_by = movies[m].posted_by
            /\ r.movies[m].created_at = movies[m].created_at
            /\ UpdateFields(r.movies[m], kwargs) = r.movies[m]

(* An updated movie (its rating is the new 4), which rating 0 leaves at 4. *)
C8_Witness ==
    \E m \in DOMAIN movies :
        /\ movies[m].rating = AllNew.rating
        /\ movies[m].genre = AllNew.genre
        /\ UpdateMovie_mutate(movies[m].posted_by,
                              [movie_id |-> m, rating |-> 0]).movies[m].rating = 4

(* C9 as stated: movies with a search text returns exactly the Movies      *)
(* whose title or description contains it without regard to case; without  *)
(* one, every Movie.                                                        *)
C9_SearchTitleOrDescription ==
    \A kwargs \in SearchInputs :
        resolve_movies(kwargs) =
            IF "search" \in DOMAIN kwargs
            THEN {m \in DOMAIN movies :
                      \/ icontains(movies[m].title, kwargs.search)
                      \/ icontains(movies[m].description, kwargs.search)}
            ELSE DOMAIN movies

(* The primary keys of the Users that delete_account removed: keys are     *)
(* handed out in order and never again.                                     *)
DeletedUsers == (1..(nextUserId - 1)) \ DOMAIN users

(* C10: once delete_account of U succeeded, no state lists a Movie posted  *)
(* by U, a Like of U or a Like on a Movie of U; and delete_account removes *)
(* nothing else: the other Movies and Likes stay as they were.              *)
C10_DeleteAccountCascades ==
    /\ \A m \in resolve_movies(<<>>) : movies[m].posted_by \notin DeletedUsers
    /\ \A l \in resolve_likes :
           /\ likes[l].user \notin DeletedUsers
           /\ likes[l].movie \in DOMAIN movies
    /\ \A user \in Authenticated, password \in Passwords :
           LET r == DeleteAccount_mutate(user, password)
               keptMovies == {m \in DOMAIN movies : movies[m].posted_by /= user}
               keptLikes == {l \in DOMAIN likes :
                                 /\ likes[l].user /= user
                                 /\ movies[likes[l].movie].posted_by /= user}
           IN  r.error = NoError =>
                   /\ DOMAIN r.users = DOMAIN users \ {user}
                   /\ DOMAIN r.movies = keptMovies
                   /\ \A m \in keptMovies : r.movies[m] = movies[m]
                   /\ DOMAIN r.likes = keptLikes
                   /\ \A l \in keptLikes : r.likes[l] = likes[l]

(* A user whose movie another user likes deletes the account: the movie    *)
(* and that Like go with it.                                                *)
C10_Witness ==
    \E user \in Authenticated, m \in DOMAIN movies, l \in DOMAIN likes :
        /\ movies[m].posted_by = user
        /\ likes[l].movie = m
        /\ likes[l].user /= user
        /\ LET r == DeleteAccount_mutate(user, "p1")
           IN  /\ r.error = NoError
               /\ m \notin DOMAIN r.movies
               /\ l \notin DOMAIN r.likes

(* The response r of a call that failed leaves the three tables as they    *)
(* were before the call.                                                    *)
FailsClean(r) ==
    r.error /= NoError => r.users = users /\ r.movies = movies /\ r.likes = likes

(* C11: every operation that fails, for whatever reason and whoever asks   *)
(* (a movie_id without a Movie included), leaves the Users, the Movies and *)
(* the Likes exactly as they were before the call.                          *)
C11_FailureWritesNothing ==
    /\ \A kwargs \in RegisterInputs : FailsClean(Register_mutate(kwargs))
    /\ \A user \in Requesters :
           /\ FailsClean(resolve_me(user))
           /\ \A kwargs \in AccountInputs : FailsClean(UpdateAccount_mutate(user, kwargs))
           /\ \A password \in Passwords : FailsClean(DeleteAccount_mutate(user, password))
           /\ \A old_password \in Passwords, new_password \in Passwords,
                 cfrm_password \in Passwords :
                  FailsClean(PasswordChange_mutate(user, old_password, new_password,
                                                   cfrm_password))
           /\ \A kwargs \in CreateInputs : FailsClean(CreateMovie_mutate(user, kwargs))
           /\ \A movie_id \in MovieIds :
                  /\ \A shape \in FewShapes :
                         FailsClean(UpdateMovie_mutate(
                             user, WithMovieId(UpdateKwargs(shape[1], shape[2]), movie_id)))
                  /\ FailsClean(DeleteMovie_mutate(user, movie_id))
                  /\ FailsClean(CreateLike_mutate(user, movie_id))
                  /\ FailsClean(UpdateLike_mutate(user, movie_id))

(* The only Movie is deleted and a registered user is left: an update of   *)
(* the missing Movie and a password change with a wrong confirmation both  *)
(* fail.                                                                    *)
C11_Witness ==
    /\ nextMovieId > 1
    /\ movies = <<>>
    /\ \E user \in Authenticated :
           /\ users[user].username = "alice"
           /\ UpdateMovie_mutate(user, WithMovieId(AllNew, 1)).error = ExcMovieDoesNotExist
           /\ UpdateLike_mutate(user, 1).error = ExcMovieDoesNotExist
           /\ PasswordChange_mutate(user, "p1", "p2", "p1").error = ErrPasswordMismatch

(* C12 as stated: update_account by a logged-in user succeeds whichever of *)
(* the two names the request gives; a name given and not empty overwrites  *)
(* the requester's, a name left out or empty keeps the old value, and      *)
(* nothing else changes.                                                    *)
C12_UpdateAccountAnyArguments ==
    \A user \in Authenticated, kwargs \in AccountInputs :
        LET r == UpdateAccount_mutate(user, kwargs)
            Wanted(field) ==
                IF field \in DOMAIN kwargs /\ kwargs[field] /= ""
                THEN kwargs[field]
                ELSE users[user][field]
        IN  /\ r.error = NoError
            /\ r.users = [users EXCEPT ![user].first_name = Wanted("first_name"),
                                       ![user].last_name = Wanted("last_name")]

(* The password a stored credential was made from. *)
Credential(user) == users[user].password[2]

(* The responses of delete_account and change_password to every password:  *)
(* only the current credential opens either.                                *)
C13_Responses ==
    \A user \in Authenticated :
        /\ \A password \in Passwords :
               LET r == DeleteAccount_mutate(user, password)
               IN  IF password = Credential(user)
                   THEN /\ r.error = NoError
                        /\ r.users = Without(users, {user})
                   ELSE /\ ErrorKind(r.error) = "Unauthorized"
                        /\ r.users = users /\ r.movies = movies /\ r.likes = likes
        /\ \A old_password \in Passwords, new_password \in Passwords,
              cfrm_password \in Passwords :
               LET r == PasswordChange_mutate(user, old_password, new_password,
                                              cfrm_password)
               IN  IF old_password = Credential(user) /\ new_password = cfrm_password
                   THEN /\ r.error = NoError
                        /\ r.users = [users EXCEPT ![user].password =
                                                       make_password(new_password)]
                   ELSE /\ r.error /= NoError
                        /\ r.users = users

(* The steps that set a credential: register sets the one of the new User, *)
(* and the one of a stored User changes only by that user's successful     *)
(* change_password, after which the old password no longer deletes the     *)
(* account and the new one does.                                            *)
C13_Steps ==
    /\ \A user \in DOMAIN users' \ DOMAIN users :
           \E kwargs \in RegisterInputs :
               /\ Register_mutate(kwargs).error = NoError
               /\ users' = Register_mutate(kwargs).users
               /\ Credential(user)' = kwargs.password
               /\ DeleteAccount_mutate(user, kwargs.password)'.error = NoError
    /\ \A user \in DOMAIN users' \cap DOMAIN users :
           Credential(user)' /= Credential(user) =>
               \E old_password \in Passwords, new_password \in Passwords :
                   /\ old_password = Credential(user)
                   /\ new_password = Credential(user)'
                   /\ PasswordChange_mutate(user, old_password, new_password,
                                            new_password).error = NoError
                   /\ users' = PasswordChange_mutate(user, old_password, new_password,
                                                     new_password).users
                   /\ DeleteAccount_mutate(user, new_password)'.error = NoError
                   /\ DeleteAccount_mutate(user, old_password)'.error
                          = ErrWrongPasswordDelete
    /\ \A user \in DOMAIN users \ DOMAIN users' :
           \E password \in Passwords :
               /\ check_password(user, password)
               /\ users' = DeleteAccount_mutate(user, password).users

(* C13: delete_account removes the requester's User only when the password *)
(* verifies against the credential set by register or by the latest        *)
(* successful change_password, and otherwise fails with Unauthorized and   *)
(* removes nothing; change_password replaces the credential only when the  *)
(* old password verifies and the new one equals its confirmation; after a  *)
(* successful change, delete_account with the old password fails and with  *)
(* the new one succeeds.                                                    *)
C13_CurrentCredential == []C13_Responses /\ [][C13_Steps]_vars

(* The superuser, who started with p1 and never registered, has changed    *)
(* the password to p2: p1 no longer deletes the account, p2 does.           *)
C13_Witness ==
    \E user \in Authenticated :
        /\ users[user] = [Admin EXCEPT !.password = make_password("p2")]
        /\ DeleteAccount_mutate(user, "p1").error = ErrWrongPasswordDelete
        /\ DeleteAccount_mutate(user, "p2").error = NoError

(* The response r is a failure that left the three tables as they were. *)
Denied(r) ==
    r.error /= NoError /\ r.users = users /\ r.movies = movies /\ r.likes = likes

(* C14: for AnonymousUser, create_movie, update_movie, delete_movie,       *)
(* create_like, remove_like, update_account, change_password,              *)
(* delete_account and me all fail, whatever their arguments, and change    *)
(* neither the Users nor the Movies nor the Likes.                          *)
C14_AnonymousDenied ==
    /\ Denied(resolve_me(Anonymous))
    /\ \A kwargs \in AccountInputs : Denied(UpdateAccount_mutate(Anonymous, kwargs))
    /\ \A password \in Passwords : Denied(DeleteAccount_mutate(Anonymous, password))
    /\ \A old_password \in Passwords, new_password \in Passwords,
          cfrm_password \in Passwords :
           Denied(PasswordChange_mutate(Anonymous, old_password, new_password,
                                        cfrm_password))
    /\ \A kwargs \in CreateInputs : Denied(CreateMovie_mutate(Anonymous, kwargs))
    /\ \A movie_id \in MovieIds :
           /\ \A shape \in UpdateShapes :
                  Denied(UpdateMovie_mutate(
                      Anonymous, WithMovieId(UpdateKwargs(shape[1], shape[2]), movie_id)))
           /\ Denied(DeleteMovie_mutate(Anonymous, movie_id))
           /\ Denied(CreateLike_mutate(Anonymous, movie_id))
           /\ Denied(UpdateLike_mutate(Anonymous, movie_id))

(* Users, a Movie and a Like are stored: AnonymousUser can delete neither  *)
(* the Movie nor an account, cannot remove the Like and has no me.          *)
C14_Witness ==
    /\ \E l \in DOMAIN likes : likes[l].movie \in DOMAIN movies
    /\ Cardinality(DOMAIN users) = 2
    /\ \A m \in DOMAIN movies :
           /\ DeleteMovie_mutate(Anonymous, m).error = ErrNotPermittedDelete
           /\ UpdateLike_mutate(Anonymous, m).error = ErrLoginToUpdateLikes
    /\ DeleteAccount_mutate(Anonymous, "p1").error = ExcNotImplementedError
    /\ resolve_me(Anonymous).error = ErrNotLoggedIn

(* C15 as stated: in every reachable state, register requests interleaved  *)
(* between their checks and their save included, no two Users share a      *)
(* username and no two Users share an email.                                *)
C15_UniqueUsernameAndEmail ==
    \A u1 \in DOMAIN users, u2 \in DOMAIN users :
        u1 /= u2 =>
            /\ users[u1].username /= users[u2].username
            /\ users[u1].email /= users[u2].email

(* The response r leaves Movie m stored and as it was. *)
Keeps(m, r) == m \in DOMAIN r.movies /\ r.movies[m] = movies[m]

(* The response r leaves the posted_by and the created_at of Movie m, when *)
(* it leaves the Movie at all.                                              *)
KeepsOrigin(m, r) ==
    m \in DOMAIN r.movies =>
        /\ r.movies[m].posted_by = movies[m].posted_by
        /\ r.movies[m].created_at = movies[m].created_at

(* The responses to every request in a state: a stored Movie is changed or *)
(* removed only by update_movie or delete_movie of that Movie, or by       *)
(* delete_account, and then only for its posted_by; none changes its       *)
(* posted_by or its created_at.                                             *)
C16_Responses ==
    \A m \in DOMAIN movies :
      /\ \A kwargs \in RegisterInputs : Keeps(m, Register_mutate(kwargs))
      /\ \A user \in Requesters :
        /\ Keeps(m, resolve_me(user))
        /\ \A kwargs \in AccountInputs : Keeps(m, UpdateAccount_mutate(user, kwargs))
        /\ \A old_password \in Passwords, new_password \in Passwords,
              cfrm_password \in Passwords :
               Keeps(m, PasswordChange_mutate(user, old_password, new_password,
                                              cfrm_password))
        /\ \A kwargs \in CreateInputs : Keeps(m, CreateMovie_mutate(user, kwargs))
        /\ \A password \in Passwords :
               LET r == DeleteAccount_mutate(user, password)
               IN  /\ user /= movies[m].posted_by => Keeps(m, r)
                   /\ KeepsOrigin(m, r)
        /\ \A movie_id \in MovieIds :
               /\ Keeps(m, CreateLike_mutate(user, movie_id))
               /\ Keeps(m, UpdateLike_mutate(user, movie_id))
               /\ LET r == DeleteMovie_mutate(user, movie_id)
                  IN  /\ (user /= movies[m].posted_by \/ movie_id /= m) => Keeps(m, r)
                      /\ KeepsOrigin(m, r)
               /\ \A shape \in FewShapes :
                      LET r == UpdateMovie_mutate(
                                   user,
                                   WithMovieId(UpdateKwargs(shape[1], shape[2]), movie_id))
                      IN  /\ (user /= movies[m].posted_by \/ movie_id /= m)
                                 => Keeps(m, r)
                          /\ KeepsOrigin(m, r)

(* The steps: a Movie that stays keeps its posted_by and its created_at,   *)
(* and a new Movie takes a primary key no Movie had before.                 *)
C16_Steps ==
    /\ \A m \in DOMAIN movies \cap DOMAIN movies' :
           /\ movies'[m].posted_by = movies[m].posted_by
           /\ movies'[m].created_at = movies[m].created_at
    /\ \A m \in DOMAIN movies' \ DOMAIN movies :
           /\ m = nextMovieId
           /\ nextMovieId' > m

(* C16: between its creation and its removal a Movie keeps its posted_by   *)
(* and its created_at, and whatever changes one of its fields or removes   *)
(* it is an update_movie or a delete_movie by its posted_by or the cascade *)
(* of the delete_account of its posted_by.                                  *)
C16_OwnershipIsFixed == []C16_Responses /\ [][C16_Steps]_vars

(* The owner has updated the Movie (its url is the new one) after time has *)
(* passed: posted_by and created_at are those of its creation, and a       *)
(* second user can take nothing over.                                       *)
C16_Witness ==
    \E m \in DOMAIN movies, user \in Authenticated :
        /\ movies[m].url = AllNew.url
        /\ movies[m].created_at = 1
        /\ now > 1
        /\ users[movies[m].posted_by].is_superuser
        /\ user /= movies[m].posted_by
        /\ UpdateMovie_mutate(user, WithMovieId(AllNew, m)).error = ErrNotPermittedUpdate
        /\ UpdateMovie_mutate(movies[m].posted_by, WithMovieId(AllFalse, m)).movies = movies

(* The response r leaves every User but the requester as it was: none is   *)
(* added, none but the requester removed.                                   *)
OthersKept(user, r) ==
    /\ DOMAIN r.users \subseteq DOMAIN users
    /\ DOMAIN users \ {user} \subseteq DOMAIN r.users
    /\ \A u \in DOMAIN r.users \ {user} : r.users[u] = users[u]

(* The responses to every request in a state: update_account changes at    *)
(* most the two names of the requester, password_change at most the        *)
(* requester's credential, and no other operation changes a stored User.   *)
C17_Responses ==
    /\ \A kwargs \in RegisterInputs :
           \A u \in DOMAIN users :
               u \in DOMAIN Register_mutate(kwargs).users
               /\ Register_mutate(kwargs).users[u] = users[u]
    /\ \A user \in Requesters :
           /\ \A kwargs \in AccountInputs :
                  LET r == UpdateAccount_mutate(user, kwargs)
                  IN  /\ OthersKept(user, r)
                      /\ r.movies = movies /\ r.likes = likes
                      /\ user \in DOMAIN users =>
                             /\ user \in DOMAIN r.users
                             /\ [r.users[user] EXCEPT
                                     !.first_name = users[user].first_name,
                                     !.last_name = users[user].last_name] = users[user]
           /\ \A old_password \in Passwords, new_password \in Passwords,
                 cfrm_password \in Passwords :
                  LET r == PasswordChange_mutate(user, old_password, new_password,
                                                 cfrm_password)
                  IN  /\ OthersKept(user, r)
                      /\ r.movies = movies /\ r.likes = likes
                      /\ user \in DOMAIN users =>
                             /\ user \in DOMAIN r.users
                             /\ [r.users[user] EXCEPT
                                     !.password = users[user].password] = users[user]
           /\ \A password \in Passwords :
                  OthersKept(user, DeleteAccount_mutate(user, password))
           /\ resolve_me(user).users = users
           /\ \A kwargs \in CreateInputs : CreateMovie_mutate(user, kwargs).users = users
           /\ \A movie_id \in MovieIds :
                  /\ \A shape \in FewShapes :
                         UpdateMovie_mutate(
                             user, WithMovieId(UpdateKwargs(shape[1], shape[2]), movie_id)
                         ).users = users
                  /\ DeleteMovie_mutate(user, movie_id).users = users
                  /\ CreateLike_mutate(user, movie_id).users = users
                  /\ UpdateLike_mutate(user, movie_id).users = users

(* The steps: a User that stays keeps its username, its email and its      *)
(* is_superuser flag.                                                       *)
C17_Steps ==
    \A u \in DOMAIN users \cap DOMAIN users' :
        /\ users'[u].username = users[u].username
        /\ users'[u].email = users[u].email
        /\ users'[u].is_superuser = users[u].is_superuser

(* C17: update_account changes nothing but the first and the last name of  *)
(* the requester's own User, change_password nothing but the requester's   *)
(* own credential; no operation modifies the record of another user, and   *)
(* none the username, the email or the is_superuser flag of a stored User. *)
C17_AccountFrame == []C17_Responses /\ [][C17_Steps]_vars

(* The superuser has a new first name and a new password, and is still the *)
(* superuser admin; alice, registered meanwhile, is as she registered.     *)
C17_Witness ==
    \E user \in Authenticated, other \in Authenticated :
        /\ users[user] = [Admin EXCEPT !.first_name = "C",
                                       !.password = make_password("p2")]
        /\ users[other] = [UserModel("A", "B", "alice", "a@x.com")
                               EXCEPT !.password = make_password("p1")]

(* C18 as stated: under every interleaving of concurrent remove_like       *)
(* calls each successful call removes a Like row of its own, so that for   *)
(* every user and movie no more remove_like calls have succeeded than      *)
(* create_like calls: two concurrent calls against a single Like row do    *)
(* not both succeed.                                                        *)
C18_RemoveLikeAtomic ==
    \A key \in DOMAIN likeCalls.remove_like :
        Count(likeCalls.remove_like, key) <= Count(likeCalls.create_like, key)

(* The primary keys handed out to Movies that are stored no more: those of *)
(* the Movies delete_movie removed.                                         *)
DeletedMovies == (1..(nextMovieId - 1)) \ DOMAIN movies

(* C19 as stated: once delete_movie(movie_id) has succeeded, no later      *)
(* state holds a Movie with that id, whatever update_movie of the same id  *)
(* loaded the Movie before the delete and saves it after.                   *)
C19_DeletionIsFinal == [][\A m \in DeletedMovies : m \notin DOMAIN movies']_vars

(* Every stored Movie was posted by a stored User who is a superuser. *)
C20_PostedBySuperuser ==
    \A m \in DOMAIN movies :
        /\ movies[m].posted_by \in DOMAIN users
        /\ users[movies[m].posted_by].is_superuser

(* The steps: no User becomes a superuser, registered or stored, and with  *)
(* no superuser stored no Movie is added.                                   *)
C20_Steps ==
    /\ \A u \in DOMAIN users' :
           users'[u].is_superuser => u \in DOMAIN users /\ users[u].is_superuser
    /\ (\A u \in DOMAIN users : ~users[u].is_superuser) =>
           DOMAIN movies' \subseteq DOMAIN movies

(* C20: from an empty Movie table, the posted_by of every stored Movie is  *)
(* a stored User with is_superuser true; register creates Users with       *)
(* is_superuser false and no operation raises the flag, so that from a     *)
(* User table without a superuser no Movie is ever created.                 *)
C20_OnlySuperusersPost == []C20_PostedBySuperuser /\ [][C20_Steps]_vars

(* The User table started empty: two users have registered, neither is a   *)
(* superuser, create_movie refuses both and no Movie was ever stored.       *)
C20_Witness ==
    /\ DOMAIN users = {1, 2}
    /\ \A u \in DOMAIN users :
           /\ ~users[u].is_superuser
           /\ users[u].username \in Usernames
           /\ CreateMovie_mutate(u, Batman).error = ErrOnlyAdmin
    /\ nextMovieId = 1
    /\ movies = <<>>

====
